---- MODULE Spec2Model ----
(***************************************************************************)
(* TaskFlow backend (src/frontend+backend/server.js): an Express server    *)
(* over one SQLite database reached through knex.                          *)
(*                                                                         *)
(* Granularity.  Node runs one handler at a time between two awaits, so    *)
(* every action below is one synchronous stretch of a handler: the code    *)
(* up to and including its next awaited database query.  Handlers of       *)
(* different requests interleave at those points only.  knex's sqlite3     *)
(* pool holds a single connection, so while db.transaction holds it no     *)
(* other query runs (conn.holder).  A request body is drawn at the step    *)
(* that first reads it; resp is the response the last step sent, if any.   *)
(*                                                                         *)
(* Time is counted in hours, the unit of JWT_EXPIRE ("24h").               *)
(* SQLite does not enforce REFERENCES clauses unless PRAGMA foreign_keys   *)
(* is switched on for the connection; server.js never does, so user_id is  *)
(* stored unchecked.                                                       *)
(***************************************************************************)
EXTENDS Integers, Sequences, FiniteSets, TLC

VARIABLES
    users,    \* rows of table users
    tasks,    \* rows of table tasks
    userSeq,  \* AUTOINCREMENT counter of users.id
    taskSeq,  \* AUTOINCREMENT counter of tasks.id
    conn,     \* the pooled connection: who holds it in a transaction, and the rollback journal
    issued,   \* every token signToken has returned
    now,      \* server clock, hours (UTC)
    tz,       \* server time-zone offset, hours
    req,      \* per request slot: the handler in progress
    resp,     \* the response sent by the last step (NoResponse: none)
    schema,   \* columns of each table, or NoTable
    mig       \* progress of the startup migration

vars == <<users, tasks, userSeq, taskSeq, conn, issued, now, tz, req, resp, schema, mig>>

----------------------------------------------------------------------------
(* Bounds of the model *)

NumSlots == 2     \* requests in progress at once
MaxUsers == 2     \* registrations that reach the insert
MaxTasks == 2     \* createTask requests that reach the insert
TickHours == 12   \* the clock advances in steps of this many hours
MaxClock == 36    \* the clock stops advancing here

Slots == 1..NumSlots

(* Program constants *)
JWT_EXPIRE == 24          \* "24h"
HOURS_PER_DAY == 24       \* 1000 * 60 * 60 * 24 ms
MIN_USERNAME == 3
MIN_PASSWORD == 6

----------------------------------------------------------------------------
(* Input values.  A JSON body is a record holding exactly the fields the   *)
(* client sent; a field that is not in its DOMAIN is JS undefined.         *)

Has(b, f) == f \in DOMAIN b

\* b with the fields of u written over it (knex .update(u) on one row)
Overwrite(b, u) == [f \in DOMAIN b |-> IF f \in DOMAIN u THEN u[f] ELSE b[f]]

Usernames == {"ann", "bob", "al"}
Emails == {"a@x.io", "b@x.io", "nomail"}
Passwords == {"secret1", "pw"}                \* sent to register
LoginEmails == {"a@x.io", "b@x.io"}
LoginPasswords == {"secret1", "wrong12", ""}  \* sent to login

\* String.length of the sample strings
StrLen(s) ==
    CASE s = "" -> 0
      [] s \in {"al", "pw"} -> 2
      [] s \in {"ann", "bob"} -> 3
      [] s \in {"a@x.io", "b@x.io", "nomail"} -> 6
      [] s \in {"secret1", "wrong12"} -> 7

IsEmail(s) == s \in {"a@x.io", "b@x.io"}

\* bcrypt.hash(password, 10): one-way; the hash is kept symbolic
BcryptHash(pw) == <<"bcrypt", pw>>

Titles == {"t"}
Statuses == {"pending", "completed"}
NullDate == -1    \* SQL NULL in column dueDate / created_at

----------------------------------------------------------------------------
(* Responses *)

NoRows == <<>>
Response(op, status, message, rows) ==
    [op |-> op, status |-> status, message |-> message, rows |-> rows]
NoResponse == Response("none", 0, "", NoRows)

----------------------------------------------------------------------------
(* Tokens: jwt.sign / jwt.verify *)

ServerKey == "JWT_SECRET"
Token(id, username, iat, sig) == [id |-> id, username |-> username, iat |-> iat, sig |-> sig]

\* a string that is no JWT at all
Malformed == Token(0, "", 0, "none")

\* jwt.sign({id, username}, JWT_SECRET, {expiresIn: JWT_EXPIRE}) at time clock
signToken(user, clock) == Token(user.id, user.username, clock, ServerKey)

\* jwt.verify(token, JWT_SECRET) does not throw: signature by JWT_SECRET and exp not reached
JwtVerify_NoExpiry(tok, clock) == tok.sig = ServerKey
JwtVerify(tok, clock) == tok.sig = ServerKey /\ clock < tok.iat + JWT_EXPIRE

NoUser == [id |-> 0, username |-> ""]
NoHeader == [scheme |-> "none", token |-> Malformed]
Bearer(tok) == [scheme |-> "Bearer", token |-> tok]

\* tokens a client can make without the key: the payload of its choice, a foreign signature
ForgedTokens == {[t EXCEPT !.sig = "forged"] : t \in issued} \cup {Token(1, "ann", now, "forged")}

\* Authorization headers a client can send
Headers ==
    {NoHeader, [scheme |-> "Basic", token |-> Malformed]}
    \cup {Bearer(t) : t \in issued \cup ForgedTokens \cup {Malformed}}

\* requireAuth: the decoded identity, or the 401 it answers
requireAuth(hdr, clock) ==
    IF hdr.scheme # "Bearer"
    THEN [ok |-> FALSE, user |-> NoUser, message |-> "No token provided"]
    ELSE IF JwtVerify(hdr.token, clock)
         THEN [ok |-> TRUE,
               user |-> [id |-> hdr.token.id, username |-> hdr.token.username],
               message |-> ""]
         ELSE [ok |-> FALSE, user |-> NoUser, message |-> "Invalid or expired token"]

----------------------------------------------------------------------------
(* Requests in progress *)

EmptyBody == [f \in {} |-> ""]
Handler(op, pc, user, id, body, n) ==
    [op |-> op, pc |-> pc, user |-> user, id |-> id, body |-> body, n |-> n]
Idle == Handler("none", "idle", NoUser, 0, EmptyBody, 0)

IsIdle(r) == req[r].pc = "idle"
At(r, pc) == req[r].pc = pc
ConnFree == conn.holder = 0
NoJournal == [holder |-> 0, users |-> {}, tasks |-> {}]

Goto(r, pc) == req' = [req EXCEPT ![r].pc = pc]
Begin(r, op, pc, user, id, body) == req' = [req EXCEPT ![r] = Handler(op, pc, user, id, body, 0)]
Finish(r) == req' = [req EXCEPT ![r] = Idle]
Send(op, status, message, rows) == resp' = Response(op, status, message, rows)
Silent == resp' = NoResponse

InProgress(op) == Cardinality({r \in Slots : req[r].op = op})

dbUnchanged == UNCHANGED <<users, tasks, userSeq, taskSeq, conn>>
envUnchanged == UNCHANGED <<now, tz, schema, mig>>

\* a protected route reached with Authorization header h: requireAuth,
\* then the handler up to its first query
Admit(r, h, op, pc, id) ==
    /\ LET a == requireAuth(h, now) IN
       IF a.ok
       THEN Begin(r, op, pc, a.user, id, EmptyBody) /\ Silent
       ELSE Send(op, 401, a.message, NoRows) /\ Finish(r)
    /\ UNCHANGED issued /\ dbUnchanged /\ envUnchanged

----------------------------------------------------------------------------
(* POST /api/auth/register *)

RegisterBodies == [username : Usernames, email : Emails, password : Passwords]

ValidRegistration(b) ==
    /\ StrLen(b.username) >= MIN_USERNAME
    /\ IsEmail(b.email)
    /\ StrLen(b.password) >= MIN_PASSWORD

\* the row .where({email}).orWhere({username}).first() finds
Existing(b) == {u \in users : u.email = b.email \/ u.username = b.username}

\* UNIQUE(username), UNIQUE(email) of table users
UniqueViolation(b) == \E u \in users : u.email = b.email \/ u.username = b.username

StartRegister(r) ==
    /\ IsIdle(r)
    /\ userSeq + InProgress("register") < MaxUsers
    /\ \E b \in RegisterBodies :
        IF ValidRegistration(b)
        THEN Begin(r, "register", "reg_check", NoUser, 0, b) /\ Silent
        ELSE Send("register", 400, "Invalid input", NoRows) /\ UNCHANGED req
    /\ UNCHANGED issued /\ dbUnchanged /\ envUnchanged

RegisterCheck(r) ==
    /\ At(r, "reg_check") /\ ConnFree
    /\ IF Existing(req[r].body) # {}
       THEN Send("register", 400, "Email or Username already exists", NoRows) /\ Finish(r)
       ELSE Goto(r, "reg_insert") /\ Silent
    /\ UNCHANGED issued /\ dbUnchanged /\ envUnchanged

RegisterInsert(r) ==
    /\ At(r, "reg_insert") /\ ConnFree
    /\ LET b == req[r].body IN
       IF UniqueViolation(b)
       THEN /\ Send("register", 500, "Registration failed", NoRows)
            /\ UNCHANGED <<users, userSeq>>
       ELSE /\ users' = users \cup
                 {[id |-> userSeq + 1, username |-> b.username, email |-> b.email,
                   password |-> BcryptHash(b.password), browser_notifications |-> TRUE]}
            /\ userSeq' = userSeq + 1
            /\ Send("register", 201, "Registration successful", NoRows)
    /\ Finish(r)
    /\ UNCHANGED <<tasks, taskSeq, conn, issued>> /\ envUnchanged

----------------------------------------------------------------------------
(* POST /api/auth/login *)

\* bodies with an email; the password may be missing
LoginBodies ==
    [email : LoginEmails, password : LoginPasswords] \cup [email : LoginEmails]

UserByEmail(e) == {u \in users : u.email = e}

\* bcryptjs compare(s, hash): rejects when s is no string
BcryptThrows(b) == ~Has(b, "password")
BcryptCompare(pw, hash) == hash = BcryptHash(pw)

\* what the handler answers to body b, and the token it signs
LoginOutcome(b) ==
    LET found == UserByEmail(b.email)
        user == CHOOSE u \in found : TRUE
        denied == [resp |-> Response("login", 401, "Incorrect email or password", NoRows),
                   tokens |-> {}]
    IN  IF found = {} THEN denied
        ELSE IF BcryptThrows(b)
        THEN [resp |-> Response("login", 500, "Login failed", NoRows), tokens |-> {}]
        ELSE IF ~BcryptCompare(b.password, user.password) THEN denied
        ELSE LET token == signToken(user, now) IN
             [resp |-> Response("login", 200, "",
                                <<[access_token |-> token, token_type |-> "bearer",
                                   username |-> user.username, email |-> user.email]>>),
              tokens |-> {token}]

StartLogin(r) ==
    /\ IsIdle(r)
    /\ \E b \in LoginBodies : Begin(r, "login", "login_query", NoUser, 0, b)
    /\ Silent
    /\ UNCHANGED issued /\ dbUnchanged /\ envUnchanged

LoginQuery(r) ==
    /\ At(r, "login_query") /\ ConnFree
    /\ resp' = LoginOutcome(req[r].body).resp
    /\ issued' = issued \cup LoginOutcome(req[r].body).tokens
    /\ Finish(r)
    /\ dbUnchanged /\ envUnchanged

----------------------------------------------------------------------------
(* Task rows.  Columns description and priority are stored and returned    *)
(* as sent and read by no handler; they are left out of the rows.          *)

TaskIds == 1..MaxTasks
UserIds == 1..MaxUsers

\* .where({ id, user_id: req.user.id }) of PUT and DELETE /api/tasks/:id
MatchTask_AnyOwner(t, id, uid) == t.id = id
MatchTask(t, id, uid) == t.id = id /\ t.user_id = uid

TaskById(id) == {t \in tasks : t.id = id}

\* the rows of set S as a list ordered by ascending id (.orderBy("id", "asc"))
RECURSIVE OrderById(_)
OrderById(S) ==
    IF S = {} THEN <<>>
    ELSE LET first == CHOOSE t \in S : \A o \in S : t.id <= o.id
         IN  <<first>> \o OrderById(S \ {first})

\* db("tasks").where({ user_id }).orderBy("id", "asc")
listTasks(uid) == OrderById({t \in tasks : t.user_id = uid})

Range(seq) == {seq[i] : i \in DOMAIN seq}

(* GET /api/tasks *)

StartList(r) ==
    /\ IsIdle(r)
    /\ \E h \in Headers : Admit(r, h, "listTasks", "list_query", 0)

ListQuery(r) ==
    /\ At(r, "list_query") /\ ConnFree
    /\ Send("listTasks", 200, "", listTasks(req[r].user.id))
    /\ Finish(r)
    /\ UNCHANGED issued /\ dbUnchanged /\ envUnchanged

(* POST /api/tasks *)

\* the title of a request body: missing, empty or a text
TitleInputs == [title : Titles \cup {""}] \cup {EmptyBody}
\* the status of a request body: missing or a text
StatusInputs == [status : Statuses] \cup {EmptyBody}

Default(b, f, d) == IF Has(b, f) THEN b[f] ELSE d

\* the row db("tasks").insert({...}) stores
NewTask(id, b, uid, clock) ==
    LET status == Default(b, "status", "pending") IN
    [id |-> id,
     title |-> b.title,
     status |-> status,
     dueDate |-> Default(b, "dueDate", NullDate),
     completed |-> (status = "completed"),
     user_id |-> uid,
     created_at |-> clock]

StartCreate(r) ==
    /\ IsIdle(r)
    /\ taskSeq + InProgress("createTask") < MaxTasks
    /\ \E h \in Headers, b \in TitleInputs :
        LET a == requireAuth(h, now) IN
        IF ~a.ok THEN Send("createTask", 401, a.message, NoRows) /\ UNCHANGED req
        ELSE IF ~Has(b, "title") \/ b.title = ""
        THEN Send("createTask", 400, "Task title is required", NoRows) /\ UNCHANGED req
        ELSE Begin(r, "createTask", "create_insert", a.user, 0, b) /\ Silent
    /\ UNCHANGED issued /\ dbUnchanged /\ envUnchanged

CreateInsert(r) ==
    /\ At(r, "create_insert") /\ ConnFree
    /\ \E s \in StatusInputs :
        tasks' = tasks \cup {NewTask(taskSeq + 1, s @@ req[r].body, req[r].user.id, now)}
    /\ taskSeq' = taskSeq + 1
    /\ req' = [req EXCEPT ![r].pc = "create_read", ![r].body = EmptyBody, ![r].n = taskSeq + 1]
    /\ Silent
    /\ UNCHANGED <<users, userSeq, conn, issued>> /\ envUnchanged

CreateRead(r) ==
    /\ At(r, "create_read") /\ ConnFree
    /\ Send("createTask", 201, "", OrderById(TaskById(req[r].n)))
    /\ Finish(r)
    /\ UNCHANGED issued /\ dbUnchanged /\ envUnchanged

(* PUT /api/tasks/:id *)

\* request bodies of an update: one or two of the columns status, completed
\* and user_id (a body naming id would renumber the row; none is drawn)
UpdateBodies ==
    LET S == [status : Statuses \cup {""}]
        C == [completed : BOOLEAN]
        U == [user_id : UserIds]
    IN  S \cup C \cup U \cup {s @@ c : s \in S, c \in C}

\* lines 277-278: completed follows a truthy status
DeriveCompleted(updates) ==
    IF Has(updates, "status") /\ updates.status = "completed"
    THEN [completed |-> TRUE] @@ updates
    ELSE IF Has(updates, "status") /\ updates.status # ""
    THEN [completed |-> FALSE] @@ updates
    ELSE updates

StartUpdate(r) ==
    /\ IsIdle(r)
    /\ \E h \in Headers, id \in TaskIds : Admit(r, h, "updateTask", "upd_check", id)

UpdateCheck(r) ==
    /\ At(r, "upd_check") /\ ConnFree
    /\ IF {t \in tasks : MatchTask(t, req[r].id, req[r].user.id)} = {}
       THEN Send("updateTask", 404, "Task not found", NoRows) /\ Finish(r)
       ELSE Goto(r, "upd_write") /\ Silent
    /\ UNCHANGED issued /\ dbUnchanged /\ envUnchanged

\* db("tasks").where({ id }).update(updates)
UpdateWrite(r) ==
    /\ At(r, "upd_write") /\ ConnFree
    /\ \E b \in UpdateBodies :
        tasks' = {IF t.id = req[r].id THEN Overwrite(t, DeriveCompleted(b)) ELSE t : t \in tasks}
    /\ Goto(r, "upd_read") /\ Silent
    /\ UNCHANGED <<users, userSeq, taskSeq, conn, issued>> /\ envUnchanged

UpdateRead(r) ==
    /\ At(r, "upd_read") /\ ConnFree
    /\ Send("updateTask", 200, "", OrderById(TaskById(req[r].id)))
    /\ Finish(r)
    /\ UNCHANGED issued /\ dbUnchanged /\ envUnchanged

(* DELETE /api/tasks/:id *)

StartDelete(r) ==
    /\ IsIdle(r)
    /\ \E h \in Headers, id \in TaskIds : Admit(r, h, "deleteTask", "del_query", id)

DeleteQuery(r) ==
    /\ At(r, "del_query") /\ ConnFree
    /\ LET hit == {t \in tasks : MatchTask(t, req[r].id, req[r].user.id)} IN
       /\ tasks' = tasks \ hit
       /\ IF hit = {}
          THEN Send("deleteTask", 404, "Task not found", NoRows)
          ELSE Send("deleteTask", 200, "Task deleted", NoRows)
    /\ Finish(r)
    /\ UNCHANGED <<users, userSeq, taskSeq, conn, issued>> /\ envUnchanged

----------------------------------------------------------------------------
(* DELETE /api/me/delete-account: db.transaction(trx => ...) *)

\* what ROLLBACK leaves of a table: the journal's copy, not the current rows
Rollback_Noop(journal, current) == current
Rollback(journal, current) == journal

StartDeleteAccount(r) ==
    /\ IsIdle(r)
    /\ \E h \in Headers : Admit(r, h, "deleteAccount", "da_begin", 0)

\* BEGIN: takes the connection
DeleteAccountBegin(r) ==
    /\ At(r, "da_begin") /\ ConnFree
    /\ conn' = [holder |-> r, users |-> users, tasks |-> tasks]
    /\ Goto(r, "da_tasks") /\ Silent
    /\ UNCHANGED <<users, tasks, userSeq, taskSeq, issued>> /\ envUnchanged

\* trx("tasks").where("user_id", userId).del()
DeleteAccountTasks(r) ==
    /\ At(r, "da_tasks") /\ conn.holder = r
    /\ tasks' = {t \in tasks : t.user_id # req[r].user.id}
    /\ Goto(r, "da_user") /\ Silent
    /\ UNCHANGED <<users, userSeq, taskSeq, conn, issued>> /\ envUnchanged

\* deletedCount = trx("users").where("id", userId).del()
DeleteAccountUser(r) ==
    /\ At(r, "da_user") /\ conn.holder = r
    /\ LET hit == {u \in users : u.id = req[r].user.id} IN
       /\ users' = users \ hit
       /\ req' = [req EXCEPT ![r].pc = "da_end", ![r].n = Cardinality(hit)]
    /\ Silent
    /\ UNCHANGED <<tasks, userSeq, taskSeq, conn, issued>> /\ envUnchanged

\* deletedCount === 0 throws: ROLLBACK and 500; otherwise COMMIT and 200
DeleteAccountEnd(r) ==
    /\ At(r, "da_end") /\ conn.holder = r
    /\ IF req[r].n = 0
       THEN /\ users' = Rollback(conn.users, users)
            /\ tasks' = Rollback(conn.tasks, tasks)
            /\ Send("deleteAccount", 500, "Failed to delete account", NoRows)
       ELSE /\ UNCHANGED <<users, tasks>>
            /\ Send("deleteAccount", 200, "Account and all data deleted successfully", NoRows)
    /\ conn' = NoJournal
    /\ Finish(r)
    /\ UNCHANGED <<userSeq, taskSeq, issued>> /\ envUnchanged

----------------------------------------------------------------------------
(* The schema the migration ends with *)

NoTable == {"(no table)"}
UsersColumns == {"id", "username", "email", "password", "browser_notifications"}
TasksColumns == {"id", "title", "description", "priority", "status", "dueDate",
                 "completed", "user_id", "created_at"}
CurrentSchema == [users |-> UsersColumns, tasks |-> TasksColumns]
MigrationDone == [pc |-> "done", run |-> 1, error |-> FALSE]

----------------------------------------------------------------------------
(* The server after startup on an empty database: accounts and their data *)

Init ==
    /\ users = {} /\ tasks = {}
    /\ userSeq = 0 /\ taskSeq = 0
    /\ conn = NoJournal
    /\ issued = {}
    /\ now = 0 /\ tz = 0
    /\ req = [r \in Slots |-> Idle]
    /\ resp = NoResponse
    /\ schema = CurrentSchema
    /\ mig = MigrationDone

Next ==
    \E r \in Slots :
        \/ StartRegister(r) \/ RegisterCheck(r) \/ RegisterInsert(r)
        \/ StartLogin(r) \/ LoginQuery(r)
        \/ StartList(r) \/ ListQuery(r)
        \/ StartCreate(r) \/ CreateInsert(r) \/ CreateRead(r)
        \/ StartDeleteAccount(r) \/ DeleteAccountBegin(r) \/ DeleteAccountTasks(r)
        \/ DeleteAccountUser(r) \/ DeleteAccountEnd(r)

Spec == Init /\ [][Next]_vars

----------------------------------------------------------------------------
(* Task handling between two registered and logged-in users.  The start    *)
(* is the state Spec reaches once ann and bob have registered and logged   *)
(* in (SeedReached).                                                       *)

Ann == [id |-> 1, username |-> "ann", email |-> "a@x.io",
        password |-> BcryptHash("secret1"), browser_notifications |-> TRUE]
Bob == [id |-> 2, username |-> "bob", email |-> "b@x.io",
        password |-> BcryptHash("secret1"), browser_notifications |-> TRUE]

Seeded ==
    /\ users = {Ann, Bob} /\ tasks = {}
    /\ userSeq = Cardinality({Ann, Bob}) /\ taskSeq = 0
    /\ conn = NoJournal
    /\ issued = {signToken(Ann, 0), signToken(Bob, 0)}
    /\ now = 0 /\ tz = 0
    /\ req = [r \in Slots |-> Idle]
    /\ schema = CurrentSchema
    /\ mig = MigrationDone

InitTasks ==
    /\ Seeded
    /\ resp = Response("login", 200, "",
                       <<[access_token |-> signToken(Bob, 0), token_type |-> "bearer",
                          username |-> Bob.username, email |-> Bob.email]>>)

NextTasks ==
    \E r \in Slots :
        \/ StartList(r) \/ ListQuery(r)
        \/ StartCreate(r) \/ CreateInsert(r) \/ CreateRead(r)
        \/ StartUpdate(r) \/ UpdateCheck(r) \/ UpdateWrite(r) \/ UpdateRead(r)
        \/ StartDelete(r) \/ DeleteQuery(r)

SpecTasks == InitTasks /\ [][NextTasks]_vars

\* slot r takes this step of its handler
Acts(r) == req'[r].pc # req[r].pc

----------------------------------------------------------------------------
(* Claims about task ownership (SpecTasks) *)

NotFound(op) == Response(op, 404, "Task not found", NoRows)
Owns(uid, id) == \E t \in tasks : t.id = id /\ t.user_id = uid

\* C1: when PUT or DELETE /api/tasks/:id runs its ownership query for a
\* caller who owns no task of that id (the id is another user's task, or no
\* task at all), the answer is the same 404 "Task not found", the handler
\* ends there and no task row changes; and the list GET /api/tasks answers
\* holds only rows of the caller.
C1_ForeignTaskNotFound ==
    [][\A r \in Slots :
        /\ (Acts(r) /\ (At(r, "upd_check") \/ At(r, "del_query"))
                    /\ ~Owns(req[r].user.id, req[r].id))
           => (resp' = NotFound(req[r].op) /\ tasks' = tasks /\ req'[r].pc = "idle")
        /\ (Acts(r) /\ At(r, "list_query"))
           => \A row \in Range(resp'.rows) : row.user_id = req[r].user.id
      ]_vars

\* C1 witness: an update was answered 404 while every task id of the model
\* exists, so the id asked for was a task of another user.
C1_Witness ==
    /\ resp = NotFound("updateTask")
    /\ \A id \in TaskIds : TaskById(id) # {}

\* C2: no step changes the user_id of a task, and no step of a request
\* authenticated as A changes the list listTasks returns for another user B.
C2_OwnerNeverChanges ==
    [][/\ \A t \in tasks : \A t2 \in tasks' : t2.id = t.id => t2.user_id = t.user_id
       /\ \A r \in Slots : \A B \in UserIds :
            (Acts(r) /\ ~IsIdle(r) /\ B # req[r].user.id) => listTasks(B)' = listTasks(B)
      ]_vars

\* C3: every stored task has completed = TRUE exactly when its status is "completed".
C3_CompletedIffStatus ==
    \A t \in tasks : t.completed <=> (t.status = "completed")

----------------------------------------------------------------------------
(* Claims about accounts (Spec) *)

HasUser(U, id) == \E u \in U : u.id = id

\* C4: the transaction of deleteAccount(U) ends in one of two ways: the
\* user row U existed when it began, and the tables are those of its
\* beginning less row U and less every task of U, answered 200; or no row U
\* existed, the tables are exactly those of its beginning, answered 500.
\* From its BEGIN to its end no other request runs a query: the only steps
\* of other requests are arrivals, which read no table.
C4_DeleteAccountAtomic ==
    [][\A r \in Slots :
        /\ (conn.holder = r /\ conn'.holder = 0) =>
            LET U == req[r].user.id IN
            \/ /\ resp' = Response("deleteAccount", 200,
                                   "Account and all data deleted successfully", NoRows)
               /\ HasUser(conn.users, U)
               /\ users' = {u \in conn.users : u.id # U}
               /\ tasks' = {t \in conn.tasks : t.user_id # U}
            \/ /\ resp' = Response("deleteAccount", 500, "Failed to delete account", NoRows)
               /\ ~HasUser(conn.users, U)
               /\ users' = conn.users
               /\ tasks' = conn.tasks
        /\ (conn.holder = 0 /\ conn'.holder = r) => (conn'.users = users /\ conn'.tasks = tasks)
        /\ (conn.holder # 0 /\ conn.holder # r /\ Acts(r)) => IsIdle(r)
      ]_vars

\* C4 witness: a transaction of a user without a row has deleted that
\* user's tasks and is about to roll back.
C4_Witness ==
    \E r \in Slots :
        /\ At(r, "da_end") /\ req[r].n = 0
        /\ \E t \in conn.tasks : t.user_id = req[r].user.id
        /\ tasks # conn.tasks

\* C5: outside a transaction, every task's user_id is the id of a user row.
C5_ReferentialIntegrity ==
    ConnFree => \A t \in tasks : HasUser(users, t.user_id)

\* C6: a register request that runs its existence check or its insert while
\* a stored user has its username or email is answered 400 "Email or
\* Username already exists" and adds no user row.
C6_DuplicateIsConflict ==
    [][\A r \in Slots :
        (Acts(r) /\ (At(r, "reg_check") \/ At(r, "reg_insert")) /\ UniqueViolation(req[r].body))
        => /\ resp' = Response("register", 400, "Email or Username already exists", NoRows)
           /\ users' = users
      ]_vars

\* C7: a login whose email is not registered, or whose password does not
\* verify against the registered user's hash (wrong, empty or missing), is
\* answered 401 "Incorrect email or password".
C7_LoginFailuresAlike ==
    [][\A r \in Slots :
        (Acts(r) /\ At(r, "login_query")
            /\ ~\E u \in users :
                  /\ u.email = req[r].body.email
                  /\ Has(req[r].body, "password")
                  /\ u.password = BcryptHash(req[r].body.password))
        => resp' = Response("login", 401, "Incorrect email or password", NoRows)
      ]_vars

----------------------------------------------------------------------------
(* Tokens over time (SpecAuth): ann and bob are registered, the clock      *)
(* advances, they log in and call a protected route.  The request's        *)
(* header is kept in the slot from its arrival to requireAuth.             *)

Tick ==
    /\ now + TickHours <= MaxClock
    /\ now' = now + TickHours
    /\ Silent
    /\ UNCHANGED <<users, tasks, userSeq, taskSeq, conn, issued, tz, req, schema, mig>>

ArriveList(r) ==
    /\ IsIdle(r)
    /\ \E h \in Headers :
        Begin(r, "listTasks", "arrived", NoUser, 0, [authorization |-> h])
    /\ Silent
    /\ UNCHANGED issued /\ dbUnchanged /\ envUnchanged

AuthList(r) ==
    /\ At(r, "arrived")
    /\ Admit(r, req[r].body.authorization, "listTasks", "list_query", 0)

InitAuth ==
    /\ users = {Ann, Bob} /\ tasks = {}
    /\ userSeq = Cardinality({Ann, Bob}) /\ taskSeq = 0
    /\ conn = NoJournal
    /\ issued = {}
    /\ now = 0 /\ tz = 0
    /\ req = [r \in Slots |-> Idle]
    /\ resp = Response("register", 201, "Registration successful", NoRows)
    /\ schema = CurrentSchema
    /\ mig = MigrationDone

NextAuth ==
    \/ Tick
    \/ \E r \in Slots :
        \/ StartLogin(r) \/ LoginQuery(r)
        \/ ArriveList(r) \/ AuthList(r) \/ ListQuery(r)

SpecAuth == InitAuth /\ [][NextAuth]_vars

Unauthorized(op, message) == Response(op, 401, message, NoRows)

\* C8: a request to a protected route is handed to its handler exactly when
\* its header is "Bearer <token>" with a token a successful login returned
\* less than 24 hours before, and the handler then runs with the id and
\* username of the user who logged in; without a Bearer header the answer
\* is 401 "No token provided", with any other token 401 "Invalid or expired
\* token", and both leave the tables as they were.  Every token is signed
\* by a login that answered 200, for a row of table users, at the time of
\* the login.
C8_TokenAdmission ==
    [][/\ \A r \in Slots :
            (Acts(r) /\ At(r, "arrived")) =>
                LET h == req[r].body.authorization IN
                IF h.scheme = "Bearer" /\ h.token \in issued /\ now - h.token.iat < 24
                THEN /\ req'[r].pc = "list_query"
                     /\ req'[r].user = [id |-> h.token.id, username |-> h.token.username]
                     /\ resp' = NoResponse
                ELSE /\ req'[r].pc = "idle"
                     /\ resp' = IF h.scheme # "Bearer"
                                THEN Unauthorized("listTasks", "No token provided")
                                ELSE Unauthorized("listTasks", "Invalid or expired token")
                     /\ users' = users /\ tasks' = tasks
       /\ \A t \in issued' \ issued :
            /\ resp'.op = "login" /\ resp'.status = 200
            /\ t.iat = now
            /\ \E u \in users : u.id = t.id /\ u.username = t.username
      ]_vars

\* C8 witness: a request carrying a token that a login returned 24 hours
\* ago or earlier has arrived, and another such token is still in time.
C8_Witness ==
    \E r \in Slots :
        /\ At(r, "arrived")
        /\ req[r].body.authorization.token \in issued
        /\ now - req[r].body.authorization.token.iat >= 24
        /\ \E t \in issued : now - t.iat < 24

----------------------------------------------------------------------------
(* The startup migration (SpecMigrate), from the schemas earlier versions  *)
(* may have left.  Each action is one if-block of migrate(); a throw       *)
(* anywhere lands in its catch, which logs and ends the run.               *)

MaxRuns == 2    \* server starts

UsersBase == {"id", "username", "email", "password"}
TasksBase == {"id", "title", "description", "priority", "status", "dueDate",
              "completed", "user_id"}

hasTable(t) == schema[t] # NoTable
hasColumn(t, c) == c \in schema[t]

MigStep(pc) == mig' = [mig EXCEPT !.pc = pc]
MigThrow == mig' = [mig EXCEPT !.pc = "done", !.error = TRUE]
migOthers == UNCHANGED <<userSeq, taskSeq, conn, issued, now, tz, req, resp>>

\* lines 24-33
MigrateUsersTable ==
    /\ mig.pc = "users_table"
    /\ schema' = IF hasTable("users") THEN schema
                 ELSE [schema EXCEPT !.users = UsersColumns]
    /\ MigStep("tasks_table")
    /\ UNCHANGED <<users, tasks>> /\ migOthers

\* lines 36-49
MigrateTasksTable ==
    /\ mig.pc = "tasks_table"
    /\ schema' = IF hasTable("tasks") THEN schema
                 ELSE [schema EXCEPT !.tasks = TasksColumns]
    /\ MigStep("rename")
    /\ UNCHANGED <<users, tasks>> /\ migOthers

\* lines 52-57: RENAME COLUMN fails when the new name is already a column
MigrateRename ==
    /\ mig.pc = "rename"
    /\ IF ~hasColumn("users", "email_notifications")
       THEN MigStep("add_notifications") /\ UNCHANGED schema
       ELSE IF hasColumn("users", "browser_notifications")
       THEN MigThrow /\ UNCHANGED schema
       ELSE /\ schema' = [schema EXCEPT !.users =
                            (@ \ {"email_notifications"}) \cup {"browser_notifications"}]
            /\ MigStep("add_notifications")
    /\ UNCHANGED <<users, tasks>> /\ migOthers

\* lines 60-65
MigrateAddNotifications ==
    /\ mig.pc = "add_notifications"
    /\ schema' = IF hasColumn("users", "browser_notifications") THEN schema
                 ELSE [schema EXCEPT !.users = @ \cup {"browser_notifications"}]
    /\ MigStep("drop_reminder")
    /\ UNCHANGED <<users, tasks>> /\ migOthers

\* lines 68-73
MigrateDropReminder ==
    /\ mig.pc = "drop_reminder"
    /\ schema' = IF hasColumn("tasks", "reminder_sent")
                 THEN [schema EXCEPT !.tasks = @ \ {"reminder_sent"}]
                 ELSE schema
    /\ MigStep("add_created_at")
    /\ UNCHANGED <<users, tasks>> /\ migOthers

\* lines 76-84: the new column, then every row set to the current time
MigrateAddCreatedAt ==
    /\ mig.pc = "add_created_at"
    /\ IF hasColumn("tasks", "created_at")
       THEN UNCHANGED <<schema, tasks>>
       ELSE /\ schema' = [schema EXCEPT !.tasks = @ \cup {"created_at"}]
            /\ tasks' = {[t EXCEPT !.created_at = now] : t \in tasks}
    /\ MigStep("done")
    /\ UNCHANGED users /\ migOthers

\* the process is started again: migrate() runs from its top, later
Restart ==
    /\ mig.pc = "done" /\ mig.run < MaxRuns
    /\ mig' = [pc |-> "users_table", run |-> mig.run + 1, error |-> mig.error]
    /\ now' = now + 1
    /\ UNCHANGED <<users, tasks, schema, userSeq, taskSeq, conn, issued, tz, req, resp>>

\* a task row of an earlier version: created_at is NULL unless the column exists
OldTask(cols) ==
    [id |-> 1, title |-> "t", status |-> "pending", dueDate |-> NullDate,
     completed |-> FALSE, user_id |-> Ann.id,
     created_at |-> IF "created_at" \in cols THEN 0 ELSE NullDate]

OldUsersSchemas == {NoTable} \cup
    {UsersBase \cup X : X \in SUBSET {"email_notifications", "browser_notifications"}}
OldTasksSchemas == {NoTable} \cup
    {TasksBase \cup Y : Y \in SUBSET {"reminder_sent", "created_at"}}

InitMigrate ==
    /\ schema \in [users : OldUsersSchemas, tasks : OldTasksSchemas]
    /\ users \in IF schema.users = NoTable THEN {{}} ELSE {{}, {Ann}}
    /\ tasks \in IF schema.tasks = NoTable \/ users = {} THEN {{}}
                 ELSE {{}, {OldTask(schema.tasks)}}
    /\ userSeq = Cardinality(users) /\ taskSeq = Cardinality(tasks)
    /\ conn = NoJournal
    /\ issued = {}
    /\ now = 1 /\ tz = 0
    /\ req = [r \in Slots |-> Idle]
    /\ resp = NoResponse
    /\ mig = [pc |-> "users_table", run |-> 1, error |-> FALSE]

NextMigrate ==
    \/ MigrateUsersTable \/ MigrateTasksTable \/ MigrateRename
    \/ MigrateAddNotifications \/ MigrateDropReminder \/ MigrateAddCreatedAt
    \/ Restart

SpecMigrate == InitMigrate /\ [][NextMigrate]_vars

\* C9: every run of the migration ends without an error, with table users
\* holding browser_notifications and no email_notifications and table tasks
\* holding created_at and no reminder_sent; and no step of a second run
\* changes the schema or a row.
C9_MigrationSafeAndIdempotent ==
    [][/\ mig'.pc = "done" =>
            /\ ~mig'.error
            /\ "browser_notifications" \in schema'.users
            /\ "email_notifications" \notin schema'.users
            /\ "created_at" \in schema'.tasks
            /\ "reminder_sent" \notin schema'.tasks
       /\ (mig.run > 1 /\ mig'.run = mig.run) =>
            (schema' = schema /\ users' = users /\ tasks' = tasks)
      ]_vars

----------------------------------------------------------------------------
(* GET /api/tasks/due-soon (SpecDueSoon).  A date string "YYYY-MM-DD" is   *)
(* the number of its day; an instant is a number of hours since day 0,     *)
(* 00:00 UTC.                                                              *)

\* instant.toISOString().split('T')[0]: the UTC date of the instant
IsoDate(instant) == instant \div HOURS_PER_DAY

\* new Date("YYYY-MM-DD"): 00:00 UTC of that date
ParseDate(day) == day * HOURS_PER_DAY

\* Math.ceil(hours / HOURS_PER_DAY)
CeilDays(hours) == -((-hours) \div HOURS_PER_DAY)

\* the rows of S ordered by ascending dueDate (.orderBy("dueDate", "asc")),
\* rows of one date in the order of their ids
RECURSIVE OrderByDueDate(_)
OrderByDueDate(S) ==
    IF S = {} THEN <<>>
    ELSE LET first == CHOOSE t \in S : \A o \in S :
                        t.dueDate < o.dueDate \/ (t.dueDate = o.dueDate /\ t.id <= o.id)
         IN  <<first>> \o OrderByDueDate(S \ {first})

\* lines 211-231 at clock instant today
listDueSoon(uid, today) ==
    LET tomorrow == today + HOURS_PER_DAY
        todayString == IsoDate(today)
        tomorrowString == IsoDate(tomorrow)
        dueTasks == OrderByDueDate({t \in tasks :
                        /\ t.user_id = uid
                        /\ t.completed = FALSE
                        /\ t.dueDate \in {todayString, tomorrowString}})
    IN  [i \in DOMAIN dueTasks |->
            dueTasks[i] @@ [daysUntilDue |-> CeilDays(ParseDate(dueTasks[i].dueDate) - today)]]

StartDueSoon(r) ==
    /\ IsIdle(r)
    /\ \E h \in Headers : Admit(r, h, "listDueSoon", "due_query", 0)

\* the handler reads the clock and runs its query; the clock does not move between the two
DueSoonQuery(r) ==
    /\ At(r, "due_query") /\ ConnFree
    /\ Send("listDueSoon", 200, "", listDueSoon(req[r].user.id, now))
    /\ Finish(r)
    /\ UNCHANGED issued /\ dbUnchanged /\ envUnchanged

MaxDay == 4     \* due dates are days 0..MaxDay

\* clock instants on days 1 and 2: around midnight UTC and at noon
ClockSamples == {ParseDate(d) + h : d \in {1, 2}, h \in {0, 1, 12, 22, 23}}
\* server time zones, hours east of UTC
ZoneSamples == {-5, 0, 2}

DueTask(id, uid, day, done) ==
    [id |-> id, title |-> "t", status |-> IF done THEN "completed" ELSE "pending",
     dueDate |-> day, completed |-> done, user_id |-> uid, created_at |-> 0]

InitDueSoon ==
    /\ users = {Ann, Bob}
    /\ \E d1, d2 \in (0..MaxDay) \cup {NullDate}, done \in BOOLEAN, owner \in {Ann.id, Bob.id} :
        tasks = {DueTask(1, Ann.id, d1, done), DueTask(2, owner, d2, FALSE)}
    /\ userSeq = Cardinality(users) /\ taskSeq = Cardinality(tasks)
    /\ conn = NoJournal
    /\ now \in ClockSamples
    /\ tz \in ZoneSamples
    /\ issued = {signToken(Ann, now), signToken(Bob, now)}
    /\ req = [r \in Slots |-> Idle]
    /\ resp = NoResponse
    /\ schema = CurrentSchema
    /\ mig = MigrationDone

NextDueSoon == \E r \in Slots : StartDueSoon(r) \/ DueSoonQuery(r)

SpecDueSoon == InitDueSoon /\ [][NextDueSoon]_vars

\* the calendar date of the instant on the server's wall clock
LocalDate(instant, offset) == (instant + offset) \div HOURS_PER_DAY

\* C10: listDueSoon answers with exactly the caller's tasks that are not
\* completed and due on today's or tomorrow's date of the server's local
\* calendar, in ascending order of due date, each with daysUntilDue 0 when
\* due today and 1 when due tomorrow.
C10_DueSoonLocalDates ==
    [][\A r \in Slots :
        (Acts(r) /\ At(r, "due_query")) =>
            LET today == LocalDate(now, tz)
                rows == resp'.rows
            IN  /\ {[f \in DOMAIN t \ {"daysUntilDue"} |-> t[f]] : t \in Range(rows)}
                     = {t \in tasks : /\ t.user_id = req[r].user.id
                                       /\ ~t.completed
                                       /\ t.dueDate \in {today, today + 1}}
                /\ Len(rows) = Cardinality(Range(rows))
                /\ \A i, j \in DOMAIN rows : i < j => rows[i].dueDate <= rows[j].dueDate
                /\ \A i \in DOMAIN rows : rows[i].daysUntilDue = rows[i].dueDate - today
      ]_vars

====
